---------------------------- MODULE Spec2Model ----------------------------
(***************************************************************************)
(* Model of slurmanalyser/utils.py: the NA validator, the SI-suffix and    *)
(* memory parsers, the two scheduler-duration parsers and the duration     *)
(* formatter.                                                              *)
(*                                                                         *)
(* A string is a sequence of one-character strings; a column (pd.Series)   *)
(* is a sequence of cells; a cell is a record whose field isna says that   *)
(* the cell is a missing value (NaN / NaT / <NA>).                         *)
(***************************************************************************)
EXTENDS Integers, Sequences, FiniteSets

VARIABLES
    v,              \* the input column of a call (cells of strings)
    x,              \* the converted column handed to util_check_na
    na_is,          \* the na_is argument: [given |-> BOOLEAN, set |-> strings]
    check_na,       \* the check_na argument (the NA policy)
    return_in,      \* util_norm_si / util_memory: the target unit
    use1024,        \* util_norm_si / util_memory: binary factors
    convert_to_int, \* util_norm_si / util_memory: round and cast to Int64
    pc,             \* position of the caller: "init", "called", ...
    ret,            \* outcome of the last call
    out,            \* the column the last call returned
    cflag,          \* util_memory: the per-CPU column it returned
    txt,            \* the column util_timedelta_to_slurm_duration returned
    out2,           \* the column parsed again from txt
    log             \* records written through slurmsim.log, oldest first

vars == <<v, x, na_is, check_na, return_in, use1024, convert_to_int,
          pc, ret, out, cflag, txt, out2, log>>

---------------------------------------------------------------------------
(* Bounds of the model *)

\* longest column
MaxCol == 2

\* longest cell of the one-cell columns given to util_norm_si and util_memory
MaxSILen == 3

\* longest cell of the one-cell columns given to the duration parsers
MaxDurLen == 7

---------------------------------------------------------------------------
(* Strings and cells *)

\* a string cell / a missing cell of a string column
Str(s) == [isna |-> FALSE, s |-> s]
NoStr == [isna |-> TRUE, s |-> <<>>]

\* a local variable: Op applied to the value assigned to it (the value of e
\* is computed first, as an assignment does)
With(e, Op(_)) == CHOOSE r \in {Op(z) : z \in {e}} : TRUE

\* all columns of one to n cells drawn from C
Columns(C, n) == UNION {[1..k -> C] : k \in 1..n}

\* utils.py:63
default_na_is ==
    { <<>>,
      <<"U","n","k","n","o","w","n">>,
      <<"N","A">>,
      <<"N","A","N">>,
      <<"N","a","N">>,
      <<"N","A","T">>,
      <<"N","a","T">>,
      <<"n","a","n">> }

---------------------------------------------------------------------------
(* util_check_na, utils.py:66-94 *)

\* np.unique(...)[:20] keeps at most this many distinct values
SampleMax == 20

\* the value a call returns: None, a count, or nothing (it raised)
RetNone == [kind |-> "None", n |-> 0]
RetCount(n) == [kind |-> "count", n |-> n]
Raised(e) == [kind |-> e, n |-> 0]

\* v.isin(na_is): a missing cell is never in a list of strings
IsIn(cell, S) == ~cell.isna /\ cell.s \in S

\* x.isna() & ~v.isin(na_is), as the set of positions that are set
NonValid(vv, xx, S) == {i \in DOMAIN vv : xx[i].isna /\ ~IsIn(vv[i], S)}

\* np.unique(v[non_valid].values)[:20]
FirstValues(U) ==
    IF Cardinality(U) <= SampleMax THEN U
    ELSE CHOOSE T \in SUBSET U : Cardinality(T) = SampleMax

Sample(vv, nv) == FirstValues({vv[i] : i \in nv})

LogRec(level, n, sample) == [level |-> level, count |-> n, sample |-> sample]

\* mutant: the error policy only logs, it does not raise
util_check_na_noraise(vv, xx, na, policy) ==
    IF policy = "ignore" THEN [ret |-> RetNone, log |-> <<>>]
    ELSE
    With(NonValid(vv, xx, IF na.given THEN na.set ELSE default_na_is), LAMBDA nv :
    With(Cardinality(nv), LAMBDA n :
        IF n # 0 /\ policy \in {"warning", "error"}
        THEN [ret |-> RetCount(n),
              log |-> <<LogRec(policy, n, Sample(vv, nv))>>]
        ELSE [ret |-> RetCount(n), log |-> <<>>]))

\* the call's outcome and what it logs
util_check_na(vv, xx, na, policy) ==
    IF policy = "ignore" THEN [ret |-> RetNone, log |-> <<>>]
    ELSE
    With(NonValid(vv, xx, IF na.given THEN na.set ELSE default_na_is), LAMBDA nv :
    With(Cardinality(nv), LAMBDA n :
        IF n # 0 /\ policy = "warning"
        THEN [ret |-> RetCount(n),
              log |-> <<LogRec("warning", n, Sample(vv, nv))>>]
        ELSE IF n # 0 /\ policy = "error"
        THEN [ret |-> Raised("ValidationError"),
              log |-> <<LogRec("error", n, Sample(vv, nv))>>]
        ELSE [ret |-> RetCount(n), log |-> <<>>]))

---------------------------------------------------------------------------
(* Callers of util_check_na: any pair of equal-length columns *)

garbage == <<"g","a","r","b","a","g","e">>

\* original strings: NA markers, a number, an unexpected value
NACells == {Str(<<>>), Str(<<"N","A">>), Str(<<"1","2">>), Str(garbage)}

\* converted cells: a value or a missing value
XCells == {[isna |-> FALSE], [isna |-> TRUE]}

\* the policies of the docstring, the spec's name for warning, an unknown one
Policies == {"ignore", "warning", "error", "warn", "bogus"}

\* na_is = None, or a caller's own marker set
NoNaIs == [given |-> FALSE, set |-> {}]
NaIsArgs == {NoNaIs, [given |-> TRUE, set |-> {<<>>, garbage}]}

InitNA ==
    /\ v \in Columns(NACells, MaxCol)
    /\ x \in Columns(XCells, MaxCol)
    /\ Len(x) = Len(v)
    /\ na_is \in NaIsArgs
    /\ check_na \in Policies
    /\ return_in = <<>>
    /\ use1024 = FALSE
    /\ convert_to_int = FALSE
    /\ pc = "init"
    /\ ret = RetNone
    /\ out = <<>>
    /\ cflag = <<>>
    /\ txt = <<>>
    /\ out2 = <<>>
    /\ log = <<>>

CallCheckNA ==
    /\ pc = "init"
    /\ \E r \in {util_check_na(v, x, na_is, check_na)} :
           /\ ret' = r.ret
           /\ log' = log \o r.log
    /\ pc' = "called"
    /\ UNCHANGED <<v, x, na_is, check_na, return_in, use1024, convert_to_int,
                   out, cflag, txt, out2>>

NextNA == CallCheckNA

SpecNA == InitNA /\ [][NextNA]_vars

---------------------------------------------------------------------------
(* Characters and decimal numbers *)

Digits == {"0","1","2","3","4","5","6","7","8","9"}

DigitVal(c) ==
    CASE c = "0" -> 0 [] c = "1" -> 1 [] c = "2" -> 2 [] c = "3" -> 3
      [] c = "4" -> 4 [] c = "5" -> 5 [] c = "6" -> 6 [] c = "7" -> 7
      [] c = "8" -> 8 [] c = "9" -> 9

DigitChar(d) ==
    CASE d = 0 -> "0" [] d = 1 -> "1" [] d = 2 -> "2" [] d = 3 -> "3"
      [] d = 4 -> "4" [] d = 5 -> "5" [] d = 6 -> "6" [] d = 7 -> "7"
      [] d = 8 -> "8" [] d = 9 -> "9"

Front(s) == SubSeq(s, 1, Len(s) - 1)
Last(s) == s[Len(s)]

\* number of positions of s that hold the character c
Count(s, c) == Cardinality({i \in DOMAIN s : s[i] = c})

\* length of the longest prefix of s made of characters of C
RECURSIVE PrefixLen(_, _)
PrefixLen(s, C) ==
    IF s # <<>> /\ s[1] \in C THEN 1 + PrefixLen(Tail(s), C) ELSE 0

(* A natural number of any size is the sequence of its decimal digits, most  *)
(* significant first, without leading zeros (zero is <<0>>).                 *)
Min(S) == CHOOSE m \in S : \A n \in S : m <= n
Max(S) == CHOOSE m \in S : \A n \in S : m >= n
NonZero(d) == {i \in DOMAIN d : d[i] # 0}
Zeros(n) == [i \in 1..n |-> 0]

StripLead(d) ==
    IF NonZero(d) = {} THEN <<0>> ELSE SubSeq(d, Min(NonZero(d)), Len(d))

RECURSIVE DigitsOf(_)
DigitsOf(n) == IF n < 10 THEN <<n>> ELSE DigitsOf(n \div 10) \o <<n % 10>>

(* Products are computed three digits at a time: a limb is the value of     *)
(* three digits, and a limb times a factor below 2^21 stays a small number. *)
LimbBase == 1000
Dig(d, i) == IF i >= 1 /\ i <= Len(d) THEN d[i] ELSE 0

\* the limb whose last digit is d[e]
Limb(d, e) == Dig(d, e) + 10 * Dig(d, e - 1) + 100 * Dig(d, e - 2)

\* the limbs of d, most significant first, after three limbs of zeros that
\* take the carry of a product
Limbs(d) ==
    [j \in 1..((Len(d) + 2) \div 3 + 3) |->
        Limb(d, Len(d) - 3 * ((Len(d) + 2) \div 3 + 3 - j))]

\* the digits of a sequence of limbs
Pow10(e) == CASE e = 0 -> 1 [] e = 1 -> 10 [] e = 2 -> 100
Unlimbs(l) ==
    [i \in 1..(3 * Len(l)) |-> (l[(i + 2) \div 3] \div Pow10(2 - ((i - 1) % 3))) % 10]

\* l * k + carry, for a factor k below 2^21
RECURSIVE MulCarry(_, _, _)
MulCarry(l, k, carry) ==
    IF l = <<>> THEN <<>>
    ELSE MulCarry(Front(l), k, (Last(l) * k + carry) \div LimbBase)
             \o <<(Last(l) * k + carry) % LimbBase>>

\* d * k, for a factor k below 2^21
MulSmall(d, k) == StripLead(Unlimbs(MulCarry(Limbs(d), k, 0)))

\* d * 1024^p, for the p of SI_SUFFIXES
Times1024(d, p) ==
    CASE p = 0 -> d
      [] p = 1 -> MulSmall(d, 1024)
      [] p = 2 -> MulSmall(d, 1048576)
      [] p = 3 -> MulSmall(MulSmall(d, 1048576), 1024)
      [] p = 4 -> MulSmall(MulSmall(d, 1048576), 1048576)
      [] p = 5 -> MulSmall(MulSmall(MulSmall(d, 1048576), 1048576), 1024)
      [] p = 6 -> MulSmall(MulSmall(MulSmall(d, 1048576), 1048576), 1048576)

\* d * SI_SUFFIXES[binary or decimal][suffix], p the rank of the suffix
TimesSuffix(d, bin, p) == IF bin THEN Times1024(d, p) ELSE d \o Zeros(3 * p)

\* d * 5^(10 * q): d / 1024^q is this number with 10 * q more decimals
RECURSIVE Times5(_, _)
Times5(d, q) ==
    IF q = 0 THEN d ELSE Times5(MulSmall(MulSmall(d, 3125), 3125), q - 1)

\* d + 1
Incr(d) ==
    With(Max({0} \cup {i \in DOMAIN d : d[i] # 9}), LAMBDA j :
        (IF j = 0 THEN <<1>> ELSE SubSeq(d, 1, j - 1) \o <<d[j] + 1>>)
            \o Zeros(Len(d) - j))

\* a < b, both of the same length
LexLess(a, b) ==
    \E i \in DOMAIN a :
        /\ a[i] < b[i]
        /\ \A j \in 1..(i - 1) : a[j] = b[j]

BigLess(a, b) == Len(a) < Len(b) \/ (Len(a) = Len(b) /\ LexLess(a, b))

(* A numeric cell: the number digits * 10^(-dec); wrapped says that the     *)
(* cell holds an int64 product that left the int64 range, so that the cell  *)
(* holds the residue of digits modulo 2^64 and not digits itself.           *)
NaN == [isna |-> TRUE, digits |-> <<0>>, dec |-> 0, wrapped |-> FALSE]

\* without the zeros that end the decimals and those that lead the digits
Canon(d, dec) ==
    IF NonZero(d) = {} THEN [digits |-> <<0>>, dec |-> 0]
    ELSE With(Min({dec, Len(d) - Max(NonZero(d))}), LAMBDA drop :
             [digits |-> SubSeq(d, Min(NonZero(d)), Len(d) - drop),
              dec |-> dec - drop])

Number(d, dec) ==
    With(Canon(d, dec), LAMBDA c :
        [isna |-> FALSE, digits |-> c.digits, dec |-> c.dec, wrapped |-> FALSE])

\* the largest int64, 2^63 - 1
Int64Max == <<9,2,2,3,3,7,2,0,3,6,8,5,4,7,7,5,8,0,7>>

FitsInt64(d) == ~BigLess(Int64Max, d)

\* pd.to_numeric(s, errors='coerce') of one cell: a number, or NaN for a
\* missing cell and for text that is no number ('.', '1.2.3')
to_numeric(cell) ==
    IF cell.isna THEN NaN
    ELSE With(Count(cell.s, "."), LAMBDA dots :
         With(SelectSeq(cell.s, LAMBDA c : c \in Digits), LAMBDA ds :
             IF dots > 1 \/ ds = <<>> \/ Len(ds) + dots # Len(cell.s) THEN NaN
             ELSE Number([i \in 1..Len(ds) |-> DigitVal(ds[i])],
                         IF dots = 0 THEN 0
                         ELSE Len(cell.s) - PrefixLen(cell.s, Digits) - 1)))

\* the cell is written as an integer (pd.to_numeric keeps int64 only if all are)
IsIntLiteral(cell) == ~cell.isna /\ cell.s # <<>> /\ \A i \in DOMAIN cell.s : cell.s[i] \in Digits

---------------------------------------------------------------------------
(* util_norm_si, utils.py:97-145 *)

NumChars == Digits \cup {"."}
SufChars == {"k","m","g","t","p","e","K","M","G","T","P","E"}

\* the power of the base that a suffix stands for
SuffixRank(suf) ==
    IF suf = <<>> THEN 0
    ELSE CASE suf[1] \in {"k","K"} -> 1 [] suf[1] \in {"m","M"} -> 2
           [] suf[1] \in {"g","G"} -> 3 [] suf[1] \in {"t","T"} -> 4
           [] suf[1] \in {"p","P"} -> 5 [] suf[1] \in {"e","E"} -> 6

\* the keys of SI_SUFFIXES['binary'] and of SI_SUFFIXES['decimal']
SuffixKeys == {<<>>} \cup {<<c>> : c \in SufChars}


\* v.str.extract("^([0-9.]+) ?([kmgtpeKMGTPE]?)$") of one cell
ExtractSI(cell) ==
    IF cell.isna THEN [ok |-> FALSE, num |-> NoStr, suf |-> <<>>]
    ELSE With(PrefixLen(cell.s, NumChars), LAMBDA k :
         With(SubSeq(cell.s, k + 1, Len(cell.s)), LAMBDA r :
         With(IF r # <<>> /\ r[1] = " " THEN Tail(r) ELSE r, LAMBDA r2 :
             IF k >= 1 /\ (r2 \in SuffixKeys)
             THEN [ok |-> TRUE, num |-> Str(SubSeq(cell.s, 1, k)), suf |-> r2]
             ELSE [ok |-> FALSE, num |-> NoStr, suf |-> <<>>])))

\* pd.to_numeric(matches[0]) * pd.to_numeric(matches[1]) of one cell, m
\* being what the pattern extracted from it; the product of two int64
\* columns is an int64 that wraps around
Product(m, bin, int64) ==
    With(to_numeric(m.num), LAMBDA n :
        IF ~m.ok \/ n.isna THEN NaN
        ELSE With(Number(TimesSuffix(n.digits, bin, SuffixRank(m.suf)), n.dec),
                  LAMBDA r : [r EXCEPT !.wrapped = int64 /\ ~FitsInt64(r.digits)]))

\* x / si_suffixes[return_in] of one cell (a float64 division)
Rescale(cell, bin, rin) ==
    IF cell.isna THEN cell
    ELSE With(SuffixRank(rin), LAMBDA q :
             [(IF bin THEN Number(Times5(cell.digits, q), cell.dec + 10 * q)
                      ELSE Number(cell.digits, cell.dec + 3 * q))
                 EXCEPT !.wrapped = cell.wrapped])

\* the digits of d before and after the decimal point, dec digits after it
IntPart(d, dec) == IF Len(d) > dec THEN SubSeq(d, 1, Len(d) - dec) ELSE <<0>>
FracPart(d, dec) ==
    IF Len(d) > dec THEN SubSeq(d, Len(d) - dec + 1, Len(d))
    ELSE Zeros(dec - Len(d)) \o d

\* x.round() of one cell: to the nearest integer, a half to the even one
RoundsUp(ip, fp) ==
    IF fp[1] = 5 /\ \A i \in 2..Len(fp) : fp[i] = 0
    THEN Last(ip) % 2 = 1
    ELSE fp[1] >= 5

Round(cell) ==
    IF cell.isna \/ cell.dec = 0 THEN cell
    ELSE With(IntPart(cell.digits, cell.dec), LAMBDA ip :
             [Number(IF RoundsUp(ip, FracPart(cell.digits, cell.dec))
                     THEN Incr(ip) ELSE ip, 0)
                 EXCEPT !.wrapped = cell.wrapped])

ColumnOut == [kind |-> "column", n |-> 0]
NormOut(r, col, lg) == [ret |-> r, col |-> col, log |-> lg]

\* astype("Int64") of a float64 column raises on a value outside int64
AsInt64(x4, float, lg) ==
    IF float /\ \E i \in DOMAIN x4 : ~x4[i].isna /\ ~FitsInt64(x4[i].digits)
    THEN NormOut(Raised("TypeError"), <<>>, lg)
    ELSE NormOut(ColumnOut, x4, lg)

util_norm_si(vv, conv, rin, policy, na, bin) ==
    With([i \in DOMAIN vv |-> ExtractSI(vv[i])], LAMBDA matches :
    With(\A i \in DOMAIN vv : matches[i].ok /\ IsIntLiteral(matches[i].num),
         LAMBDA int64 :
    With([i \in DOMAIN vv |-> Product(matches[i], bin, int64)], LAMBDA x1 :
    With(util_check_na(vv, x1, na, policy), LAMBDA chk :
        IF chk.ret.kind = "ValidationError"
        THEN NormOut(chk.ret, <<>>, chk.log)
        ELSE IF rin # <<>> /\ rin \notin SuffixKeys
        THEN NormOut(Raised("ConfigurationError"), <<>>, chk.log)
        ELSE With(IF rin # <<>>
                  THEN [i \in DOMAIN vv |-> Rescale(x1[i], bin, rin)]
                  ELSE x1, LAMBDA x3 :
             IF ~conv THEN NormOut(ColumnOut, x3, chk.log)
             ELSE AsInt64([i \in DOMAIN vv |-> Round(x3[i])],
                          ~int64 \/ rin # <<>>, chk.log))))))

---------------------------------------------------------------------------
(* util_memory, utils.py:148-171 *)

QualChars == {"c","n","C","N"}

\* v.str.extract("^([0-9.]+ ?[kmgtpeKMGTPE]?)([cnCN]?)$") of one cell
ExtractMemory(cell) ==
    IF cell.isna THEN [ok |-> FALSE, mag |-> NoStr, qual |-> <<>>]
    ELSE With(IF cell.s # <<>> /\ Last(cell.s) \in QualChars
              THEN <<Last(cell.s)>> ELSE <<>>, LAMBDA q :
         With(SubSeq(cell.s, 1, Len(cell.s) - Len(q)), LAMBDA body :
             IF ExtractSI(Str(body)).ok
             THEN [ok |-> TRUE, mag |-> Str(body), qual |-> q]
             ELSE [ok |-> FALSE, mag |-> NoStr, qual |-> <<>>]))

util_memory(vv, conv, rin, policy, na, bin) ==
    With([i \in DOMAIN vv |-> ExtractMemory(vv[i])], LAMBDA matches :
    With(util_norm_si([i \in DOMAIN vv |-> matches[i].mag],
                      conv, rin, policy, na, bin), LAMBDA r :
        [ret |-> r.ret, col |-> r.col, log |-> r.log,
         c |-> IF r.ret.kind = "column"
               THEN [i \in DOMAIN vv |-> matches[i].qual \in {<<"c">>, <<"C">>}]
               ELSE <<>>]))

---------------------------------------------------------------------------
(* Callers of util_norm_si and util_memory *)

\* all strings of at most n characters of A
AllStrings(A, n) == UNION {[1..k -> A] : k \in 0..n}

SIAlphabet == {"1", "2", ".", " ", "M", "E", "c"}

\* cells of the columns of several cells
SICells ==
    { Str(<<>>), Str(<<"N","A">>), Str(<<"x">>),
      Str(<<"1","2","M">>), Str(<<"1","2"," ","k">>), Str(<<"1",".","5","G">>),
      Str(<<"1","2","E">>), Str(<<"7","e">>), Str(<<"2","G","c">>) }

SIColumns ==
    {<<Str(s)>> : s \in AllStrings(SIAlphabet, MaxSILen)}
        \cup Columns(SICells, MaxCol)

\* the documented policies
SIPolicies == {"ignore", "warning", "error"}

\* no rescaling, a recognised unit, an unrecognised one
ReturnIns == {<<>>, <<"k">>, <<"x">>}

InitSI ==
    /\ v \in SIColumns
    /\ x = <<>>
    /\ na_is = NoNaIs
    /\ check_na \in SIPolicies
    /\ return_in \in ReturnIns
    /\ use1024 \in BOOLEAN
    /\ convert_to_int \in BOOLEAN
    /\ pc = "init"
    /\ ret = RetNone
    /\ out = <<>>
    /\ cflag = <<>>
    /\ txt = <<>>
    /\ out2 = <<>>
    /\ log = <<>>

CallNormSI ==
    /\ pc = "init"
    /\ \E r \in {util_norm_si(v, convert_to_int, return_in, check_na, na_is, use1024)} :
           /\ ret' = r.ret
           /\ out' = r.col
           /\ log' = log \o r.log
    /\ pc' = "norm_si"
    /\ UNCHANGED <<v, x, na_is, check_na, return_in, use1024, convert_to_int,
                   cflag, txt, out2>>

CallMemory ==
    /\ pc = "init"
    /\ \E r \in {util_memory(v, convert_to_int, return_in, check_na, na_is, use1024)} :
           /\ ret' = r.ret
           /\ out' = r.col
           /\ cflag' = r.c
           /\ log' = log \o r.log
    /\ pc' = "memory"
    /\ UNCHANGED <<v, x, na_is, check_na, return_in, use1024, convert_to_int,
                   txt, out2>>

NextSI == CallNormSI \/ CallMemory

SpecSI == InitSI /\ [][NextSI]_vars

---------------------------------------------------------------------------
(* Durations *)

(* A duration cell is days, seconds of the day and nanoseconds of the       *)
(* second, as datetime.timedelta normalises its fields; kind tells a        *)
(* duration from a null (None / NaT) and from a call that raised, in which   *)
(* case text is the string the error names.                                  *)
Td(d, s, n) ==
    [kind |-> "timedelta", isna |-> FALSE, days |-> d, secs |-> s, ns |-> n,
     text |-> <<>>]
Null ==
    [kind |-> "null", isna |-> TRUE, days |-> 0, secs |-> 0, ns |-> 0,
     text |-> <<>>]
Err(e, s) ==
    [kind |-> e, isna |-> TRUE, days |-> 0, secs |-> 0, ns |-> 0, text |-> s]

DaySecs == 86400
HourSecs == 3600
MinSecs == 60
SecNs == 1000000000
MicroNs == 1000

\* the value of a string of digits
RECURSIVE IntOf(_)
IntOf(s) == IF s = <<>> THEN 0 ELSE IntOf(Front(s)) * 10 + DigitVal(Last(s))

IsDigits(s) == s # <<>> /\ \A i \in DOMAIN s : s[i] \in Digits
IsNumChars(s) == s # <<>> /\ \A i \in DOMAIN s : s[i] \in NumChars

\* float(s) succeeds: digits with at most one point
IsFloat(s) ==
    /\ \A i \in DOMAIN s : s[i] \in NumChars
    /\ Count(s, ".") <= 1
    /\ \E i \in DOMAIN s : s[i] \in Digits

\* the whole seconds and the nanoseconds that float(s) stands for
FloatInt(s) == IntOf(SubSeq(s, 1, PrefixLen(s, Digits)))
FloatFrac(s) == SubSeq(s, PrefixLen(s, Digits) + 2, Len(s))
RECURSIVE FracNs(_, _)
FracNs(f, unit) ==
    IF f = <<>> \/ unit = 0 THEN 0
    ELSE DigitVal(f[1]) * unit + FracNs(Tail(f), unit \div 10)

\* the digit that follows the first k digits of f, and whether more follow it
NextDigit(f, k) == IF Len(f) > k THEN DigitVal(f[k + 1]) ELSE 0
MoreAfter(f, k) == \E i \in (k + 2)..Len(f) : f[i] # "0"

\* datetime.timedelta keeps microseconds: the fraction is rounded to the
\* nearest one, a half to the even one
MicroRounded(f) ==
    With(FracNs(SubSeq(f, 1, IF Len(f) < 6 THEN Len(f) ELSE 6), SecNs \div 10)
             \div MicroNs, LAMBDA us :
    With(NextDigit(f, 6), LAMBDA nd :
        IF nd > 5 \/ (nd = 5 /\ (MoreAfter(f, 6) \/ us % 2 = 1))
        THEN us + 1 ELSE us))

\* datetime.timedelta(days=d, hours=h, minutes=m, seconds=s + us/10^6),
\* normalised, without computing the total
timedelta(d, h, m, s, us) ==
    With((h % 24) * HourSecs + (m % 1440) * MinSecs + (s % DaySecs)
             + us \div 1000000, LAMBDA sec :
        Td(d + (h \div 24) + (m \div 1440) + (s \div DaySecs) + (sec \div DaySecs),
           sec % DaySecs,
           (us % 1000000) * MicroNs))

\* the parts of s between the occurrences of the character c
RECURSIVE Split(_, _)
Split(s, c) ==
    With(PrefixLen(s, {s[i] : i \in DOMAIN s} \ {c}), LAMBDA k :
        IF k = Len(s) THEN <<s>>
        ELSE <<SubSeq(s, 1, k)>> \o Split(SubSeq(s, k + 2, Len(s)), c))

---------------------------------------------------------------------------
(* util_slurm_duration_to_timedelta, utils.py:208-244 *)

NoMatch == [ok |-> FALSE, g |-> <<>>]
Groups(ok, g) == IF ok THEN [ok |-> TRUE, g |-> g] ELSE NoMatch

\* the fields of s: what is before the '-' (if there is exactly one '-'),
\* and the parts of the rest between ':'
DayPart(s) == Split(s, "-")
ClockPart(s) == Split(s, ":")

\* re.match(r"^(\d+)-(\d+):(\d+):([0-9.]+)$", v)
MatchDHMS(s) ==
    With(DayPart(s), LAMBDA p :
    With(IF Len(p) = 2 THEN ClockPart(p[2]) ELSE <<>>, LAMBDA c :
        Groups(Len(p) = 2 /\ Len(c) = 3 /\ IsDigits(p[1]) /\ IsDigits(c[1])
                   /\ IsDigits(c[2]) /\ IsNumChars(c[3]),
               <<p[1]>> \o c)))

\* re.match(r"^(\d+)-(\d+):(\d+)$", v)
MatchDHM(s) ==
    With(DayPart(s), LAMBDA p :
    With(IF Len(p) = 2 THEN ClockPart(p[2]) ELSE <<>>, LAMBDA c :
        Groups(Len(p) = 2 /\ Len(c) = 2 /\ IsDigits(p[1]) /\ IsDigits(c[1])
                   /\ IsDigits(c[2]),
               <<p[1]>> \o c)))

\* re.match(r"^(\d+)-(\d+)$", v)
MatchDH(s) ==
    With(DayPart(s), LAMBDA p :
        Groups(Len(p) = 2 /\ IsDigits(p[1]) /\ IsDigits(p[2]), p))

\* re.match(r"^(\d+):(\d+):([0-9.]+)$", v)
MatchHMS(s) ==
    With(ClockPart(s), LAMBDA c :
        Groups(Len(c) = 3 /\ IsDigits(c[1]) /\ IsDigits(c[2]) /\ IsNumChars(c[3]), c))

\* re.match(r"^(\d+):([0-9.]+)$", v)
MatchMS(s) ==
    With(ClockPart(s), LAMBDA c :
        Groups(Len(c) = 2 /\ IsDigits(c[1]) /\ IsNumChars(c[2]), c))

\* re.match(r"^(\d+)$", v)
MatchM(s) == Groups(IsDigits(s), <<s>>)

\* timedelta(..., seconds=float(sec)): float() raises on text that is no number
WithSeconds(d, h, m, sec) ==
    IF ~IsFloat(sec) THEN Err("ValueError", sec)
    ELSE timedelta(d, h, m, FloatInt(sec), MicroRounded(FloatFrac(sec)))

util_slurm_duration_to_timedelta(s) ==
    With(MatchDHMS(s), LAMBDA m1 :
    IF m1.ok THEN WithSeconds(IntOf(m1.g[1]), IntOf(m1.g[2]), IntOf(m1.g[3]), m1.g[4])
    ELSE With(MatchDHM(s), LAMBDA m2 :
    IF m2.ok THEN timedelta(IntOf(m2.g[1]), IntOf(m2.g[2]), IntOf(m2.g[3]), 0, 0)
    ELSE With(MatchDH(s), LAMBDA m3 :
    IF m3.ok THEN timedelta(IntOf(m3.g[1]), IntOf(m3.g[2]), 0, 0, 0)
    ELSE With(MatchHMS(s), LAMBDA m4 :
    IF m4.ok THEN WithSeconds(0, IntOf(m4.g[1]), IntOf(m4.g[2]), m4.g[3])
    ELSE With(MatchMS(s), LAMBDA m5 :
    IF m5.ok THEN WithSeconds(0, 0, IntOf(m5.g[1]), m5.g[2])
    ELSE With(MatchM(s), LAMBDA m6 :
    IF m6.ok THEN timedelta(0, 0, IntOf(m6.g[1]), 0, 0)
    ELSE IF s \in default_na_is THEN Null
    ELSE Err("FormatError", s)))))))

---------------------------------------------------------------------------
(* util_slurm_duration_to_duration, utils.py:247-263 *)

\* s with every '-' replaced by ' days '
RECURSIVE ReplaceDash(_)
ReplaceDash(s) ==
    IF s = <<>> THEN <<>>
    ELSE (IF s[1] = "-" THEN <<" ","d","a","y","s"," ">> ELSE <<s[1]>>)
             \o ReplaceDash(Tail(s))

\* the five v.str.replace calls, applied in their order to one cell
ReplaceM(s) == IF MatchM(s).ok THEN s \o <<" ","m">> ELSE s
ReplaceMS(s) ==
    With(MatchMS(s), LAMBDA m :
        IF m.ok THEN m.g[1] \o <<" ","m"," ">> \o m.g[2] \o <<" ","S">> ELSE s)
ReplaceDH(s) ==
    With(MatchDH(s), LAMBDA m :
        IF m.ok THEN m.g[1] \o <<" ","D"," ">> \o m.g[2] \o <<" ","h">> ELSE s)
ReplaceDHM(s) == IF MatchDHM(s).ok THEN s \o <<":","0","0">> ELSE s

Rewrite(s) == ReplaceDash(ReplaceDHM(ReplaceDH(ReplaceMS(ReplaceM(s)))))

\* the largest timedelta64[ns]: 2^63 - 1 nanoseconds
TdMaxDays == 106751
TdMaxSecs == 85636
TdMaxNs == 854775807

InTdRange(td) ==
    \/ td.days < TdMaxDays
    \/ td.days = TdMaxDays /\ td.secs < TdMaxSecs
    \/ td.days = TdMaxDays /\ td.secs = TdMaxSecs /\ td.ns <= TdMaxNs

\* seconds as the duration-literal parser reads them: digits, or digits with
\* a fraction; the fraction is kept to the nanosecond
IsSeconds(s) ==
    \E k \in {PrefixLen(s, Digits)} :
        /\ k >= 1
        /\ \/ k = Len(s)
           \/ s[k + 1] = "." /\ IsDigits(SubSeq(s, k + 2, Len(s)))

Nanos(d, h, m, sec) ==
    With(timedelta(d, h, m, FloatInt(sec), 0), LAMBDA t :
        Td(t.days, t.secs, FracNs(FloatFrac(sec), SecNs \div 10)))

\* the words of s, which blanks separate
Words(s) == SelectSeq(Split(s, " "), LAMBDA w : w # <<>>)

\* 'H:M:S' and 'H:M:S.f'
Clock(w, d) ==
    With(ClockPart(w), LAMBDA c :
        IF Len(c) = 3 /\ IsDigits(c[1]) /\ IsDigits(c[2]) /\ IsSeconds(c[3])
        THEN Nanos(d, IntOf(c[1]), IntOf(c[2]), c[3])
        ELSE Null)

\* pd.to_timedelta(s, errors='coerce') of one cell, for the literals that the
\* rewriting makes of the six grammars ('N m', 'N m F S', 'N D N h',
\* 'N days H:M:S', 'H:M:S'); any other text, and a duration outside the
\* range of timedelta64[ns], is coerced to NaT
Literal(w, n) ==
    IF n = 1 THEN Clock(w[1], 0)
    ELSE IF n = 2 /\ IsDigits(w[1]) /\ w[2] = <<"m">>
    THEN Nanos(0, 0, IntOf(w[1]), <<"0">>)
    ELSE IF n = 4 /\ IsDigits(w[1]) /\ w[2] = <<"m">> /\ IsSeconds(w[3])
              /\ w[4] = <<"S">>
    THEN Nanos(0, 0, IntOf(w[1]), w[3])
    ELSE IF n = 4 /\ IsDigits(w[1]) /\ w[2] = <<"D">> /\ IsDigits(w[3])
              /\ w[4] = <<"h">>
    THEN Nanos(IntOf(w[1]), IntOf(w[3]), 0, <<"0">>)
    ELSE IF n = 3 /\ IsDigits(w[1]) /\ w[2] = <<"d","a","y","s">>
    THEN Clock(w[3], IntOf(w[1]))
    ELSE Null

to_timedelta(s) ==
    With(Words(s), LAMBDA w :
    With(Literal(w, Len(w)), LAMBDA td :
        IF td.isna \/ ~InTdRange(td) THEN Null ELSE td))

util_slurm_duration_to_duration(vv, policy, na) ==
    With([i \in DOMAIN vv |-> IF vv[i].isna THEN vv[i] ELSE Str(Rewrite(vv[i].s))],
         LAMBDA w :
    With([i \in DOMAIN vv |-> IF w[i].isna THEN Null ELSE to_timedelta(w[i].s)],
         LAMBDA xx :
    With(util_check_na(w, xx, na, policy), LAMBDA chk :
        IF chk.ret.kind = "ValidationError"
        THEN NormOut(chk.ret, <<>>, chk.log)
        ELSE NormOut(ColumnOut, xx, chk.log))))

---------------------------------------------------------------------------
(* util_timedelta_to_slurm_duration, utils.py:266-281 *)

\* v // pd.to_timedelta(1, unit): whole units in the duration; unit is the
\* length of the unit in seconds
FloorDiv(td, unit) == td.days * (DaySecs \div unit) + td.secs \div unit

\* v % pd.to_timedelta(1, unit)
Mod(td, unit) == Td(0, td.secs % unit, td.ns)

\* str(n)
ToStr(n) == With(DigitsOf(n), LAMBDA d : [i \in DOMAIN d |-> DigitChar(d[i])])

\* s.zfill(2)
zfill2(s) == IF Len(s) < 2 THEN <<"0">> \o s ELSE s

\* mutant: the days of a duration below one day are written as '0-'
DaysPrefix_keepzero(days) == ToStr(days) \o <<"-">>

\* days.astype(str) + "-", blanked where it is "0-"
DaysPrefix(days) ==
    With(ToStr(days) \o <<"-">>, LAMBDA s : IF s = <<"0","-">> THEN <<>> ELSE s)

\* mutant: the minutes are taken from what is left of the day, not of the hour
MinutesOf_ofday(td) == FloorDiv(Mod(td, DaySecs), MinSecs)

\* (v % 1 hour) // 1 minute
MinutesOf(td) == FloorDiv(Mod(td, HourSecs), MinSecs)

FormatCell(td) ==
    IF td.isna THEN <<"N","A">>
    ELSE DaysPrefix(FloorDiv(td, DaySecs))
             \o zfill2(ToStr(FloorDiv(Mod(td, DaySecs), HourSecs))) \o <<":">>
             \o zfill2(ToStr(MinutesOf(td))) \o <<":">>
             \o zfill2(ToStr(FloorDiv(Mod(td, MinSecs), 1)))

util_timedelta_to_slurm_duration(col) ==
    [i \in DOMAIN col |-> Str(FormatCell(col[i]))]

---------------------------------------------------------------------------
(* Callers of the duration parsers and of the formatter *)

DurAlphabet == {"1", "-", ":", "."}

\* cells of the columns of several cells
DurCells ==
    { Str(<<>>), Str(<<"N","A">>), Str(<<"b","o","g","u","s">>),
      Str(<<"0">>), Str(<<"1","0">>),
      Str(<<"2","-","0","3",":","0","4",":","0","5">>),
      Str(<<"1","-","2",":","3">>), Str(<<"1","-","2">>),
      Str(<<"1",":","2",":","3",".","5">>), Str(<<"0",":","1",".","5">>),
      Str(<<"1","0","6","7","5","2","-","0">>),
      Str(<<"0",":","0",".","0","0","0","0","0","0","1">>) }

DurColumns ==
    {<<Str(s)>> : s \in AllStrings(DurAlphabet, MaxDurLen)}
        \cup Columns(DurCells, MaxCol)

\* duration cells given to the formatter directly
TdCells ==
    { Null, Td(0, 0, 0), Td(0, 3599, 500000000), Td(2, 11045, 0),
      Td(TdMaxDays, TdMaxSecs, TdMaxNs) }

ScalarOut == [kind |-> "scalar", n |-> 0]

InitDur ==
    /\ x = <<>>
    /\ na_is = NoNaIs
    /\ check_na = "ignore"
    /\ return_in = <<>>
    /\ use1024 = FALSE
    /\ convert_to_int = FALSE
    /\ ret = RetNone
    /\ cflag = <<>>
    /\ txt = <<>>
    /\ out2 = <<>>
    /\ log = <<>>
    /\ \/ pc = "init" /\ v \in DurColumns /\ out = <<>>
       \/ pc = "given" /\ v = <<>> /\ out \in Columns(TdCells, MaxCol)

\* the caller applies the scalar parser to every cell of its column
ParseScalar ==
    /\ pc = "init"
    /\ out' = [i \in DOMAIN v |-> util_slurm_duration_to_timedelta(v[i].s)]
    /\ ret' = ScalarOut
    /\ pc' = "parsed"
    /\ UNCHANGED <<v, x, na_is, check_na, return_in, use1024, convert_to_int,
                   cflag, txt, out2, log>>

ParseBatch ==
    /\ pc = "init"
    /\ \E p \in SIPolicies :
         \E r \in {util_slurm_duration_to_duration(v, p, na_is)} :
             /\ check_na' = p
             /\ ret' = r.ret
             /\ out' = r.col
             /\ log' = log \o r.log
    /\ pc' = "parsed"
    /\ UNCHANGED <<v, x, na_is, return_in, use1024, convert_to_int,
                   cflag, txt, out2>>

\* a column of durations exists: it was given, the batch parser returned it,
\* or every scalar call returned and the results fit timedelta64[ns]
HasColumn ==
    \/ pc = "given"
    \/ pc = "parsed" /\ ret.kind = "column"
    \/ /\ pc = "parsed" /\ ret.kind = "scalar"
       /\ \A i \in DOMAIN out :
            \/ out[i].kind = "null"
            \/ out[i].kind = "timedelta" /\ InTdRange(out[i])

Format ==
    /\ HasColumn
    /\ txt' = util_timedelta_to_slurm_duration(out)
    /\ pc' = "formatted"
    /\ UNCHANGED <<v, x, na_is, check_na, return_in, use1024, convert_to_int,
                   ret, out, cflag, out2, log>>

\* the formatted column is parsed again by the parser that made the column
Reparse ==
    /\ pc = "formatted"
    /\ \/ /\ ret.kind = "scalar"
          /\ out2' = [i \in DOMAIN txt |-> util_slurm_duration_to_timedelta(txt[i].s)]
          /\ log' = log
       \/ /\ ret.kind = "column"
          /\ \E r \in {util_slurm_duration_to_duration(txt, check_na, na_is)} :
                 /\ out2' = r.col
                 /\ log' = log \o r.log
    /\ pc' = "reparsed"
    /\ UNCHANGED <<v, x, na_is, check_na, return_in, use1024, convert_to_int,
                   ret, out, cflag, txt>>

NextDur == ParseScalar \/ ParseBatch \/ Format \/ Reparse

SpecDur == InitDur /\ [][NextDur]_vars

---------------------------------------------------------------------------
(* Claims about util_check_na, under SpecNA *)

\* the NA-marker set in force: na_is when given, else the default set
Effective(na) == IF na.given THEN na.set ELSE default_na_is

\* the number of positions whose converted value is missing and whose
\* original string is no NA marker
Unexpected(vv, xx, na) ==
    Cardinality({i \in DOMAIN vv : xx[i].isna /\ ~(vv[i].s \in Effective(na))})

\* C1: under every policy that does not make the call fail (ignore, warn,
\* warning) util_check_na returns the number of unexpected missing values,
\* and under ignore it logs nothing.
C1_ReturnsCount ==
    (pc = "called" /\ check_na \in {"ignore", "warn", "warning"})
        => /\ ret = RetCount(Unexpected(v, x, na_is))
           /\ check_na = "ignore" => log = <<>>

\* C2: under the error policy util_check_na raises the ValidationError
\* exactly when some converted value is unexpectedly missing; otherwise it
\* returns the count 0 and logs nothing; the two columns are left as they were.
C2_ErrorPolicy ==
    [][(pc = "init" /\ pc' = "called" /\ check_na = "error")
          => /\ v' = v /\ x' = x
             /\ (ret'.kind = "ValidationError") <=> (Unexpected(v, x, na_is) > 0)
             /\ Unexpected(v, x, na_is) = 0 => (ret' = RetCount(0) /\ log' = log)]_vars

C2_Witness ==
    /\ pc = "called" /\ check_na = "error" /\ ret.kind = "ValidationError"
    /\ Len(v) = 2 /\ v[1] = Str(<<>>) /\ x[1].isna
    /\ v[2] = Str(garbage) /\ x[2].isna

\* C9: a policy outside the recognised ones (ignore, warning, error) makes
\* util_check_na fail with a ConfigurationError, whatever the columns hold.
C9_UnknownPolicyFails ==
    (pc = "called" /\ check_na \notin {"ignore", "warning", "error"})
        => ret.kind = "ConfigurationError"

---------------------------------------------------------------------------
(* Claims about util_norm_si and util_memory, under SpecSI *)

\* C3: with a return_in that is neither '' nor a recognised suffix the call
\* ends in the ConfigurationError, for every column and every NA policy.
C3_BadReturnInFails ==
    (pc = "norm_si" /\ return_in \notin SuffixKeys)
        => ret.kind = "ConfigurationError"

\* a cell '<n>', '<n><suffix>' or '<n> <suffix>', n a string of digits
SIForm(s) ==
    LET k == PrefixLen(s, Digits)
        r == SubSeq(s, k + 1, Len(s))
    IN  /\ k >= 1
        /\ \/ r = <<>>
           \/ Len(r) = 1 /\ r[1] \in SufChars
           \/ Len(r) = 2 /\ r[1] = " " /\ r[2] \in SufChars

\* n * B^p for such a cell
SIValue(s, bin) ==
    LET k == PrefixLen(s, Digits)
        n == [i \in 1..k |-> DigitVal(s[i])]
        suf == IF Last(s) \in SufChars THEN <<Last(s)>> ELSE <<>>
    IN  Number(TimesSuffix(StripLead(n), bin, SuffixRank(suf)), 0)

\* C4: without rescaling, the column util_norm_si returns is as long as its
\* input, holds n * B^p at every cell '<n>[ ]<suffix>' (B = 1000, or 1024
\* with the binary flag) and a missing value at every cell that does not
\* match the pattern.
C4_ValueIsNTimesFactor ==
    (pc = "norm_si" /\ return_in = <<>> /\ ret.kind = "column")
        => /\ Len(out) = Len(v)
           /\ \A i \in DOMAIN v :
                /\ SIForm(v[i].s) => out[i] = SIValue(v[i].s, use1024)
                /\ ~ExtractSI(v[i]).ok => out[i].isna

\* the column with the per-CPU / per-node qualifier taken off its cells
Unqualified(vv) ==
    [i \in DOMAIN vv |->
        IF ExtractMemory(vv[i]).ok THEN ExtractMemory(vv[i]).mag ELSE vv[i]]

LogCounts(lg) == [i \in DOMAIN lg |-> <<lg[i].level, lg[i].count>>]

\* C10: util_memory ends as util_norm_si does on the column without its
\* qualifiers: the same outcome, the same magnitudes, and the NA validator
\* counting the same cells (those missing in the output whose original
\* string is no NA marker).
C10_MemoryAsNormSI ==
    pc = "memory"
        => LET r == util_norm_si(Unqualified(v), convert_to_int, return_in,
                                 check_na, na_is, use1024)
           IN  /\ ret = r.ret
               /\ out = r.col
               /\ LogCounts(log) = LogCounts(r.log)

---------------------------------------------------------------------------
(* Claims about the duration parsers and the formatter, under SpecDur *)

\* the '-' and ':' of s in their order, and the fields they separate
Seps(s) == SelectSeq(s, LAMBDA c : c \in {"-", ":"})
RECURSIVE Fields(_)
Fields(s) ==
    LET k == PrefixLen(s, {s[i] : i \in DOMAIN s} \ {"-", ":"})
    IN  IF k = Len(s) THEN <<s>>
        ELSE <<SubSeq(s, 1, k)>> \o Fields(SubSeq(s, k + 2, Len(s)))

\* the six grammars: their separators, and whether the last field is seconds
Grammars ==
    { [name |-> "D-H:M:S", seps |-> <<"-", ":", ":">>, sec |-> TRUE],
      [name |-> "D-H:M",   seps |-> <<"-", ":">>,      sec |-> FALSE],
      [name |-> "D-H",     seps |-> <<"-">>,           sec |-> FALSE],
      [name |-> "H:M:S",   seps |-> <<":", ":">>,      sec |-> TRUE],
      [name |-> "M:S",     seps |-> <<":">>,           sec |-> TRUE],
      [name |-> "M",       seps |-> <<>>,              sec |-> FALSE] }

\* s is written in grammar g: whole numbers, and a decimal number of seconds
InGrammar(s, g) ==
    LET f == Fields(s)
    IN  /\ Seps(s) = g.seps
        /\ \A i \in 1..(Len(f) - 1) : IsDigits(f[i])
        /\ IF g.sec THEN IsFloat(Last(f)) ELSE IsDigits(Last(f))

GrammarsOf(s) == {g \in Grammars : InGrammar(s, g)}
IsDuration(s) == GrammarsOf(s) # {}

\* days*86400 + hours*3600 + minutes*60 + seconds for a string of a grammar,
\* as whole days, seconds of the day and nanoseconds
TotalOf(s) ==
    LET g == CHOOSE h \in GrammarsOf(s) : TRUE
        f == Fields(s)
        hasday == g.seps # <<>> /\ g.seps[1] = "-"
        c == IF hasday THEN Tail(f) ELSE f
        days == IF hasday THEN IntOf(f[1]) ELSE 0
        hours == IF hasday \/ Len(c) = 3 THEN IntOf(c[1]) ELSE 0
        minutes == IF hasday \/ Len(c) = 3
                   THEN (IF Len(c) >= 2 THEN IntOf(c[2]) ELSE 0)
                   ELSE IntOf(c[1])
        whole == IF g.sec THEN FloatInt(Last(f)) ELSE 0
        nanos == IF g.sec THEN FracNs(FloatFrac(Last(f)), SecNs \div 10) ELSE 0
        rest == hours * 3600 + minutes * 60 + whole
    IN  Td(days + rest \div 86400, rest % 86400, nanos)

\* the code's six patterns that match s
Matching(s) ==
    {k \in 1..6 : <<MatchDHMS(s), MatchDHM(s), MatchDH(s), MatchHMS(s),
                    MatchMS(s), MatchM(s)>>[k].ok}

\* C5: the scalar parser maps every string to exactly one of: the duration
\* days*86400 + hours*3600 + minutes*60 + seconds if the string is in one of
\* the six grammars (no string is in two); the null duration if it is in none
\* and is an NA marker; else a FormatError naming the string.
C5_ThreeOutcomes ==
    (pc = "parsed" /\ ret.kind = "scalar")
        => \A i \in DOMAIN v :
             LET s == v[i].s
             IN  /\ Cardinality(GrammarsOf(s)) <= 1
                 /\ Cardinality(Matching(s)) <= 1
                 /\ out[i] = IF IsDuration(s) THEN TotalOf(s)
                             ELSE IF s \in default_na_is THEN Null
                             ELSE Err("FormatError", s)

\* a string of a grammar with the seconds written as digits, or as digits
\* with a fraction
IsPlainDuration(s) ==
    /\ IsDuration(s)
    /\ (CHOOSE g \in GrammarsOf(s) : TRUE).sec => IsSeconds(Last(Fields(s)))

\* C6: on a column whose cells are all in one of the six grammars or NA
\* markers, the batch parser returns at every position the result of the
\* scalar parser: the same total, and a null exactly where that is null.
C6_BatchAsScalar ==
    (pc = "parsed" /\ ret.kind = "column"
       /\ \A i \in DOMAIN v : IsPlainDuration(v[i].s) \/ v[i].s \in default_na_is)
        => \A i \in DOMAIN v : out[i] = util_slurm_duration_to_timedelta(v[i].s)

\* two digits
TwoDigits(n) == <<DigitChar(n \div 10), DigitChar(n % 10)>>

\* 'NA' for a null, else [D-]HH:MM:SS from the whole days, hours below a day,
\* minutes below an hour and seconds below a minute
SlurmText(td) ==
    IF td.isna THEN <<"N","A">>
    ELSE (IF td.days = 0 THEN <<>> ELSE ToStr(td.days) \o <<"-">>)
            \o TwoDigits(td.secs \div 3600) \o <<":">>
            \o TwoDigits((td.secs % 3600) \div 60) \o <<":">>
            \o TwoDigits(td.secs % 60)

\* C7: the formatter writes 'NA' for a null and else 'HH:MM:SS' below one
\* day and 'D-HH:MM:SS' from one day on, the hours, minutes and seconds as
\* two digits; the output is as long as the input.
C7_FormatsCanonical ==
    pc = "formatted"
        => /\ Len(txt) = Len(out)
           /\ \A i \in DOMAIN out : txt[i] = Str(SlurmText(out[i]))

C7_Witness ==
    /\ pc = "formatted" /\ Len(out) = 2
    /\ out[1] = Td(0, 0, 0) /\ txt[1] = Str(<<"0","0",":","0","0",":","0","0">>)
    /\ out[2] = Td(2, 11045, 0)
    /\ txt[2] = Str(<<"2","-","0","3",":","0","4",":","0","5">>)

\* C8 as stated: parsing a string of any of the six grammars, formatting the
\* result and parsing the text again yields the total of the first parse.
C8_RoundTrip ==
    pc = "reparsed"
        => \A i \in DOMAIN v : IsPlainDuration(v[i].s) => out2[i] = out[i]

\* C8 as amended: the same, for the strings whose parsed duration is a
\* whole number of seconds.
C8_RoundTripWholeSeconds ==
    pc = "reparsed"
        => \A i \in DOMAIN v :
             (IsPlainDuration(v[i].s) /\ out[i].ns = 0) => out2[i] = out[i]

C8_Witness ==
    /\ pc = "reparsed" /\ ret.kind = "scalar" /\ Len(v) = 2
    /\ v[1] = Str(<<"2","-","0","3",":","0","4",":","0","5">>)
    /\ v[2] = Str(<<"1","0">>)
    /\ txt[2] = Str(<<"0","0",":","1","0",":","0","0">>)
    /\ out2 = out /\ out[2] = Td(0, 600, 0)

============================================================================
